---- MODULE Spec2Model ----
(***************************************************************************)
(* Drill-down map controller of src/components/ChinaMapDashboard.tsx:      *)
(* the React state of ChinaMapDashboard, the mapCache ref, the chart       *)
(* handle, the loadMap calls suspended at an await, and the handlers that  *)
(* drive them (mount effects, chart click, back button, timeline click,    *)
(* the settlement of fetch() and response.json()).                         *)
(*                                                                         *)
(* Conventions.                                                            *)
(*  - The Chinese province names of the source are written in pinyin       *)
(*    (the parser reads ASCII strings only); 'china' is kept as it is.     *)
(*  - JavaScript values that can be of several types are records tagged    *)
(*    with their type (field t), so that truthiness tests are computed     *)
(*    as JavaScript computes them.                                         *)
(*  - One action is one run of a handler up to its next await, followed    *)
(*    by the commit of the state updates it made and by the render effect  *)
(*    of that commit.  State updates made in one run are committed         *)
(*    together (automatic batching of React 18 and later).                 *)
(*  - The DOM stacking of the loading and error overlays is not part of    *)
(*    the model: a handler is callable whenever the element or chart it    *)
(*    is registered on exists.                                             *)
(***************************************************************************)
EXTENDS Integers, Sequences, FiniteSets, TLC

(* ---------------------------- bounds ---------------------------------- *)

\* loadMap calls suspended at an await at the same time
MaxInFlight == 2
\* Math.random() takes the values k / RandomScale, 0 <= k < RandomScale
RandomScale == 1000
\* length of the region lists handed to generateData
MaxRegions == 2

(* ------------------------- JavaScript values --------------------------- *)

Undefined == [t |-> "undefined"]
Null == [t |-> "null"]
Num(n) == [t |-> "number", v |-> n]
Str(s) == [t |-> "string", v |-> s]
\* a function object, such as a method inherited from Object.prototype
Fn == [t |-> "function"]
\* a parsed JSON object carrying a features array of named features
Geo(names) == [t |-> "object", features |-> names]
\* a parsed JSON object without a usable features array
Malformed == [t |-> "object"]

\* JavaScript truthiness, as used by if (adcode), if (!geoJson), error &&
Truthy(v) ==
    CASE v.t = "undefined" -> FALSE
      [] v.t = "null" -> FALSE
      [] v.t = "number" -> v.v # 0
      [] v.t = "string" -> v.v # ""
      [] OTHER -> TRUE

(* --------------------------- constants --------------------------------- *)

NationalAdcode == 100000
NationalMap == "china"

ProvinceTable ==
    << <<"BeijingShi", 110000>>, <<"TianjinShi", 120000>>,
       <<"HebeiSheng", 130000>>, <<"ShanxiSheng", 140000>>,
       <<"NeimengguZizhiqu", 150000>>, <<"LiaoningSheng", 210000>>,
       <<"JilinSheng", 220000>>, <<"HeilongjiangSheng", 230000>>,
       <<"ShanghaiShi", 310000>>, <<"JiangsuSheng", 320000>>,
       <<"ZhejiangSheng", 330000>>, <<"AnhuiSheng", 340000>>,
       <<"FujianSheng", 350000>>, <<"JiangxiSheng", 360000>>,
       <<"ShandongSheng", 370000>>, <<"HenanSheng", 410000>>,
       <<"HubeiSheng", 420000>>, <<"HunanSheng", 430000>>,
       <<"GuangdongSheng", 440000>>, <<"GuangxiZhuangzuZizhiqu", 450000>>,
       <<"HainanSheng", 460000>>, <<"ChongqingShi", 500000>>,
       <<"SichuanSheng", 510000>>, <<"GuizhouSheng", 520000>>,
       <<"YunnanSheng", 530000>>, <<"XizangZizhiqu", 540000>>,
       <<"ShaanxiSheng", 610000>>, <<"GansuSheng", 620000>>,
       <<"QinghaiSheng", 630000>>, <<"NingxiaHuizuZizhiqu", 640000>>,
       <<"XinjiangWeiwuerZizhiqu", 650000>>, <<"TaiwanSheng", 710000>>,
       <<"XianggangTebiexingzhengqu", 810000>>,
       <<"AomenTebiexingzhengqu", 820000>> >>

\* the own properties of the PROVINCE_ADCODES object literal
PROVINCE_ADCODES ==
    [n \in {ProvinceTable[i][1] : i \in DOMAIN ProvinceTable} |->
        (CHOOSE p \in {ProvinceTable[i] : i \in DOMAIN ProvinceTable} : p[1] = n)[2]]

\* Object.keys(PROVINCE_ADCODES), in insertion order
INITIAL_PROVINCES == [i \in DOMAIN ProvinceTable |-> ProvinceTable[i][1]]

\* property names every object literal inherits from Object.prototype
ObjectPrototypeMembers ==
    {"constructor", "toString", "toLocaleString", "valueOf", "hasOwnProperty",
     "isPrototypeOf", "propertyIsEnumerable"}

LookupNational(name) ==
    IF name \in DOMAIN PROVINCE_ADCODES THEN Num(NationalAdcode)
    ELSE Undefined
\* PROVINCE_ADCODES[provinceName]: a property read of a plain object, which
\* finds own properties first and inherited ones after
Lookup(name) ==
    IF name \in DOMAIN PROVINCE_ADCODES THEN Num(PROVINCE_ADCODES[name])
    ELSE IF name \in ObjectPrototypeMembers THEN Fn
    ELSE Undefined

\* getLast7Days(): seven dates, the last one being today; a date is its index
NumDates == 7
InitialDate == 7
ErrorMessageFixed(mapName) == Str("Unable to load map. Please check network or adcode.")
\* the message set by the catch block
ErrorMessage(mapName) ==
    Str("Unable to load map for " \o mapName \o ". Please check network or adcode.")

(* --------------------------- input sets -------------------------------- *)

\* params.name of a chart click: a registry name, a name absent from the
\* registry and the empty name
ClickNames == {"GuangdongSheng", "ShenzhenShi", ""}
\* the same, with a name absent from the registry that Object.prototype
\* defines in the place of the registry name
InheritedClickNames == {"toString", "ShenzhenShi", ""}
ComponentTypes == {"series", "geo"}
\* the timeline entries the user clicks: today and the day before
ClickDates == {NumDates - 1, NumDates}

\* what response.json() can resolve to: two geometries, one of them with a
\* feature of falsy name, an object without features, and null
Bodies ==
    {Geo(<<"ShenzhenShi">>), Geo(<<"", "GuangzhouShi">>), Malformed, Null}

\* the map identifiers loadMap can be called with
MapNames ==
    {NationalMap} \cup
    {n \in ClickNames \cup InheritedClickNames : n # "" /\ Truthy(Lookup(n))}

(* ----------------------------- state ----------------------------------- *)

VARIABLES
    isLoading,           \* useState<boolean>(true)
    error,               \* useState<string | null>(null)
    selectedDate,        \* index into dates
    currentMapName,
    currentAdcode,
    currentRegionNames,
    mapCache,            \* mapCache.current: Map<string, GeoJSON>
    chartInstance,       \* chartInstance.current: "null", "live" or "disposed"
    inflight,            \* the loadMap calls suspended at an await, oldest first
    option,              \* the option of the last chart.setOption(option, true)
    ev                   \* what the last step did (history)

view == <<isLoading, error, selectedDate, currentMapName, currentAdcode,
          currentRegionNames>>
vars == <<isLoading, error, selectedDate, currentMapName, currentAdcode,
          currentRegionNames, mapCache, chartInstance, inflight, option, ev>>

NoOption == [map |-> "", regions |-> <<>>, date |-> 0]
\* no loadMap call
NoLoad == [adcode |-> Undefined, mapName |-> "", pc |-> "none",
           pre |-> <<"", Undefined, <<>> >>]
NoEvent == [kind |-> "init", component |-> "", name |-> "", load |-> NoLoad,
            requests |-> 0, settled |-> "none", redraws |-> 0]

Init ==
    /\ isLoading = TRUE
    /\ error = Null
    /\ selectedDate = InitialDate
    /\ currentMapName = NationalMap
    /\ currentAdcode = Num(NationalAdcode)
    /\ currentRegionNames = INITIAL_PROVINCES
    /\ mapCache = [m \in MapNames |-> Undefined]
    /\ chartInstance = "null"
    /\ inflight = <<>>
    /\ option = NoOption
    /\ ev = NoEvent

(* ------------------------- loadMap, lines 63-95 ------------------------ *)

CacheGetMiss(cache, mapName) == Undefined
\* mapCache.current.get(mapName)
CacheGet(cache, mapName) == cache[mapName]

\* echarts.registerMap and geoJson.features.map(...) go through without a
\* throw: geoJson is an object with a features array
WellFormed(geoJson) == geoJson.t = "object" /\ "features" \in DOMAIN geoJson

SubRegionsUnfiltered(geoJson) == geoJson.features
\* geoJson.features.map(f => f.properties.name).filter(Boolean)
SubRegions(geoJson) == SelectSeq(geoJson.features, LAMBDA n : n # "")

\* how the try block ends once geoJson is in hand (lines 78-88 or the catch)
Outcome(geoJson) == IF WellFormed(geoJson) THEN "success" ELSE "failure"

\* the view before a step, as a loadMap call finds it
Snapshot == <<currentMapName, currentAdcode, currentRegionNames>>

LoadingAfterSettleOn == TRUE
LoadingAfterSettleStuck == isLoading
\* setIsLoading(false), on line 88 and on line 93
LoadingAfterSettle == FALSE

FinishSuccessKeepsAdcode(adcode, mapName, geoJson, errNow) ==
    /\ currentRegionNames' = SubRegions(geoJson)
    /\ currentMapName' = mapName
    /\ currentAdcode' = currentAdcode
    /\ isLoading' = LoadingAfterSettle
    /\ error' = errNow
\* lines 85-88; errNow is the error state as this run of the handler left it
FinishSuccess(adcode, mapName, geoJson, errNow) ==
    /\ currentRegionNames' = SubRegions(geoJson)
    /\ currentMapName' = mapName
    /\ currentAdcode' = adcode
    /\ isLoading' = LoadingAfterSettle
    /\ error' = errNow

\* lines 90-94
FinishFailure(mapName) ==
    /\ error' = ErrorMessage(mapName)
    /\ isLoading' = LoadingAfterSettle
    /\ UNCHANGED <<currentMapName, currentAdcode, currentRegionNames>>

\* lines 78-94 for a geoJson in hand
Finish(adcode, mapName, geoJson, errNow) ==
    IF WellFormed(geoJson)
    THEN FinishSuccess(adcode, mapName, geoJson, errNow)
    ELSE FinishFailure(mapName)

Remove(seq, i) == SubSeq(seq, 1, i - 1) \o SubSeq(seq, i + 1, Len(seq))

(* --------------------- render effect, lines 139-251 -------------------- *)

EffectRunsIgnoringLoading(regionsSet) ==
    \/ currentMapName' # currentMapName
    \/ regionsSet
    \/ selectedDate' # selectedDate
EffectRunsAlways(regionsSet) == TRUE
EffectRunsNoDate(regionsSet) ==
    \/ currentMapName' # currentMapName
    \/ regionsSet
    \/ isLoading' # isLoading
\* the dependency list of line 251 differs from that of the previous commit;
\* regionsSet: setCurrentRegionNames was given a fresh array
EffectRuns(regionsSet) ==
    \/ currentMapName' # currentMapName
    \/ regionsSet
    \/ selectedDate' # selectedDate
    \/ isLoading' # isLoading

\* the effect runs and gets past line 141
Draws(regionsSet) ==
    /\ EffectRuns(regionsSet)
    /\ chartInstance' # "null"
    /\ ~isLoading'

\* setIsLoading(true), line 64
LoadingAtStart == TRUE

\* the commit of a run of a handler: the render effect, and the history
Commit(kind, component, name, load, requests, settled, regionsSet) ==
    /\ option' = IF Draws(regionsSet)
                 THEN [map |-> currentMapName', regions |-> currentRegionNames',
                       date |-> selectedDate']
                 ELSE option
    /\ ev' = [kind |-> kind, component |-> component, name |-> name,
              load |-> load, requests |-> requests, settled |-> settled,
              redraws |-> IF Draws(regionsSet) THEN 1 ELSE 0]

(* ------------------------------ actions -------------------------------- *)

\* loadMap(adcode, mapName) up to its first await, or to its end on a cache
\* hit; the caller sets selectedDate' and chartInstance'
LoadMap(adcode, mapName, kind, component, name) ==
    LET geoJson == CacheGet(mapCache, mapName)
        call == [adcode |-> adcode, mapName |-> mapName, pc |-> "fetch",
                 pre |-> Snapshot]
    IN
    IF ~Truthy(geoJson)
    THEN /\ Len(inflight) < MaxInFlight
         /\ isLoading' = LoadingAtStart
         /\ error' = Null
         /\ inflight' = Append(inflight, call)
         /\ UNCHANGED <<currentMapName, currentAdcode, currentRegionNames, mapCache>>
         /\ Commit(kind, component, name, call, 1, "none", FALSE)
    ELSE /\ Finish(adcode, mapName, geoJson, Null)
         /\ UNCHANGED <<mapCache, inflight>>
         /\ Commit(kind, component, name, [call EXCEPT !.pc = "hit"], 0,
                   Outcome(geoJson), WellFormed(geoJson))

\* the three effects of the first commit, lines 98-101, 104-136, 139-141
Mount ==
    /\ chartInstance = "null"
    /\ chartInstance' = "live"
    /\ UNCHANGED selectedDate
    /\ LoadMap(Num(NationalAdcode), NationalMap, "mount", "", "")

\* the click handler of lines 113-125
Click(componentType, name) ==
    /\ chartInstance = "live"
    /\ UNCHANGED <<selectedDate, chartInstance>>
    /\ IF componentType = "series" /\ Truthy(Str(name)) /\ Truthy(Lookup(name))
       THEN LoadMap(Lookup(name), name, "click", componentType, name)
       ELSE /\ UNCHANGED <<isLoading, error, currentMapName, currentAdcode,
                           currentRegionNames, mapCache, inflight>>
            /\ Commit("click", componentType, name, NoLoad, 0, "none", FALSE)

\* a button bound to handleBackToNational is rendered, lines 276-285, 291-298
BackButtonShown ==
    \/ Truthy(error) /\ ~isLoading
    \/ currentMapName # NationalMap /\ ~isLoading

BackToFirstProvince ==
    /\ chartInstance # "null"
    /\ BackButtonShown
    /\ UNCHANGED <<selectedDate, chartInstance>>
    /\ LoadMap(Num(ProvinceTable[1][2]), NationalMap, "back", "", "")
\* handleBackToNational, lines 254-256
BackToNational ==
    /\ chartInstance # "null"
    /\ BackButtonShown
    /\ UNCHANGED <<selectedDate, chartInstance>>
    /\ LoadMap(Num(NationalAdcode), NationalMap, "back", "", "")

\* onClick={() => setSelectedDate(date)}, line 307
SelectDate(date) ==
    /\ chartInstance # "null"
    /\ selectedDate' = date
    /\ UNCHANGED <<isLoading, error, currentMapName, currentAdcode,
                   currentRegionNames, mapCache, chartInstance, inflight>>
    /\ Commit("date", "", "", NoLoad, 0, "none", FALSE)

\* the catch block runs for the suspended call i
Fail(i) ==
    LET l == inflight[i] IN
    /\ FinishFailure(l.mapName)
    /\ inflight' = Remove(inflight, i)
    /\ UNCHANGED <<selectedDate, mapCache, chartInstance>>
    /\ Commit("settle", "", "", l, 0, "failure", FALSE)

\* fetch() rejects: transport error (line 72)
FetchRejects(i) ==
    /\ inflight[i].pc = "fetch"
    /\ Fail(i)

\* fetch() resolves with a non-success status (line 73)
FetchNotOk(i) ==
    /\ inflight[i].pc = "fetch"
    /\ Fail(i)

\* fetch() resolves with a success status; the call suspends at line 74
FetchOk(i) ==
    /\ inflight[i].pc = "fetch"
    /\ inflight' = [inflight EXCEPT ![i].pc = "json"]
    /\ UNCHANGED <<isLoading, error, selectedDate, currentMapName, currentAdcode,
                   currentRegionNames, mapCache, chartInstance, option>>
    /\ ev' = [kind |-> "fetchOk", component |-> "", name |-> "",
              load |-> inflight[i], requests |-> 0, settled |-> "none",
              redraws |-> 0]

\* response.json() rejects: the body does not parse (line 74)
JsonRejects(i) ==
    /\ inflight[i].pc = "json"
    /\ Fail(i)

\* response.json() resolves to body: lines 74-88, or the catch block
JsonResolves(i, body) ==
    LET l == inflight[i] IN
    /\ l.pc = "json"
    /\ mapCache' = [mapCache EXCEPT ![l.mapName] = body]
    /\ Finish(l.adcode, l.mapName, body, error)
    /\ inflight' = Remove(inflight, i)
    /\ UNCHANGED <<selectedDate, chartInstance>>
    /\ Commit("settle", "", "", l, 0, Outcome(body), WellFormed(body))

\* the settlements of fetch() and of response.json()
Settle ==
    \/ \E i \in DOMAIN inflight : FetchRejects(i)
    \/ \E i \in DOMAIN inflight : FetchNotOk(i)
    \/ \E i \in DOMAIN inflight : FetchOk(i)
    \/ \E i \in DOMAIN inflight : JsonRejects(i)
    \/ \E i \in DOMAIN inflight, b \in Bodies : JsonResolves(i, b)

Next ==
    \/ Mount
    \/ \E c \in ComponentTypes, n \in ClickNames : Click(c, n)
    \/ BackToNational
    \/ \E d \in ClickDates : SelectDate(d)
    \/ \E i \in DOMAIN inflight : FetchRejects(i)
    \/ \E i \in DOMAIN inflight : FetchNotOk(i)
    \/ \E i \in DOMAIN inflight : FetchOk(i)
    \/ \E i \in DOMAIN inflight : JsonRejects(i)
    \/ \E i \in DOMAIN inflight, b \in Bodies : JsonResolves(i, b)

Spec == Init /\ [][Next]_vars

\* the same program, the clicked names drawn from InheritedClickNames
NextInherited ==
    \/ Mount
    \/ \E c \in ComponentTypes, n \in InheritedClickNames : Click(c, n)
    \/ BackToNational
    \/ \E d \in ClickDates : SelectDate(d)
    \/ Settle

SpecInherited == Init /\ [][NextInherited]_vars

TypeOK ==
    /\ isLoading \in BOOLEAN
    /\ chartInstance \in {"null", "live", "disposed"}
    /\ Len(inflight) <= MaxInFlight

(* ------------------- requests that resolve or fail --------------------- *)

\* the await the suspended call i waits at is settled: fetch() or
\* response.json() resolves or rejects and the call runs on (lines 72-74)
Progress(i) ==
    /\ i \in DOMAIN inflight
    /\ \/ FetchRejects(i)
       \/ FetchNotOk(i)
       \/ FetchOk(i)
       \/ JsonRejects(i)
       \/ \E b \in Bodies : JsonResolves(i, b)

\* the program, under the assumptions that React runs the effects of the
\* first commit and that the await of every suspended call is settled in
\* the end
SpecFair ==
    /\ Init
    /\ [][Next]_vars
    /\ WF_vars(Mount)
    /\ \A i \in 1..MaxInFlight : WF_vars(Progress(i))

(* ------------- mounts and teardown of the effects, lines 98-136 -------- *)

\* the component is mounted: its handlers and effects can run
Mounted == chartInstance # "null" /\ ev.kind # "unmount"

\* the resize listener is registered right after echarts.init and removed
\* right before dispose(), in the same block (lines 128-133)
ResizeListenerOn == chartInstance = "live"

\* the cleanup returned by the one run of the chart effect that created the
\* handle (lines 131-134): dispose(), the ref keeps the handle
Cleanup(handle) == IF handle = "live" THEN "disposed" ELSE handle

\* React StrictMode, right after the first run of the effects: their
\* cleanups run and the effects run a second time on the same refs.  The
\* initial-load effect calls loadMap again, the chart effect finds
\* chartInstance.current set and does nothing (line 107), the render effect
\* returns on isLoading
StrictRemount ==
    /\ ev.kind = "mount"
    /\ chartInstance' = Cleanup(chartInstance)
    /\ UNCHANGED selectedDate
    /\ LoadMap(Num(NationalAdcode), NationalMap, "remount", "", "")

\* the component is unmounted: the cleanup of the chart effect runs if that
\* run of the effect returned one; React drops the state updates of the
\* calls still suspended, so nothing follows
Unmount ==
    /\ Mounted
    /\ chartInstance' = Cleanup(chartInstance)
    /\ ev' = [kind |-> "unmount", component |-> "", name |-> "",
              load |-> NoLoad, requests |-> 0, settled |-> "none",
              redraws |-> 0]
    /\ UNCHANGED <<isLoading, error, selectedDate, currentMapName,
                   currentAdcode, currentRegionNames, mapCache, inflight,
                   option>>

NextLifecycle ==
    \/ Mount
    \/ StrictRemount
    \/ Unmount
    \/ Mounted /\ \E c \in ComponentTypes, n \in ClickNames : Click(c, n)
    \/ Mounted /\ BackToNational
    \/ Mounted /\ \E d \in ClickDates : SelectDate(d)
    \/ Mounted /\ \E i \in DOMAIN inflight : FetchRejects(i)
    \/ Mounted /\ \E i \in DOMAIN inflight : FetchNotOk(i)
    \/ Mounted /\ \E i \in DOMAIN inflight : FetchOk(i)
    \/ Mounted /\ \E i \in DOMAIN inflight : JsonRejects(i)
    \/ Mounted /\ \E i \in DOMAIN inflight, b \in Bodies : JsonResolves(i, b)

SpecLifecycle == Init /\ [][NextLifecycle]_vars

(* ----------------------- generateData, lines 34-40 --------------------- *)

ValueNoOffset(k) == (k * 9000) \div RandomScale
\* Math.floor(Math.random() * 9000) + 1000, for Math.random() = k / RandomScale
Value(k) == (k * 9000) \div RandomScale + 1000

\* (Math.random() * 0.4) - 0.2 as a fraction: the numerator over
\* 10 * RandomScale
GrowthRaw(k) == 4 * k - 2 * RandomScale

\* x.toFixed(2) for x = num / den: the sign, then the integer n closest to
\* 100 * |x| (the larger one on a tie) written as units and two decimals
ToFixed2(num, den) ==
    LET mag == IF num < 0 THEN 0 - num ELSE num
        n   == (200 * mag + den) \div (2 * den)
    IN [sign |-> IF num < 0 THEN "-" ELSE "", units |-> n \div 100,
        cents |-> n % 100]

\* parseFloat of such a string; the number is kept in hundredths
ParseFloat(s) ==
    LET n == 100 * s.units + s.cents
    IN IF s.sign = "-" THEN 0 - n ELSE n

\* parseFloat(((Math.random() * 0.4) - 0.2).toFixed(2)), in hundredths
Growth(k) == ParseFloat(ToFixed2(GrowthRaw(k), 10 * RandomScale))

\* generateData(regionNames); rnd[i] holds the two draws of Math.random()
\* made for the i-th name
generateData(regionNames, rnd) ==
    [i \in DOMAIN regionNames |->
        [name |-> regionNames[i], value |-> Value(rnd[i][1]),
         growth |-> Growth(rnd[i][2])]]

\* the draws of Math.random(): both ends of [0, 1), the middle, and the
\* draws on both sides of the places where toFixed(2) starts to round to
\* -0.20 and to 0.20
Randoms ==
    {0, (RandomScale * 12) \div 1000, (RandomScale * 13) \div 1000,
     RandomScale \div 2, (RandomScale * 987) \div 1000,
     (RandomScale * 988) \div 1000, RandomScale - 1}

\* names of sub-regions
RegionNames == {"GuangzhouShi", "ShenzhenShi"}

RECURSIVE ListsOf(_, _)
\* the lists of at most n names
ListsOf(names, n) ==
    IF n = 0 THEN {<<>>}
    ELSE ListsOf(names, n - 1) \cup
         {Append(l, x) : l \in ListsOf(names, n - 1), x \in names}

\* the lists of feature names of the geometries generateData is drawn for
RegionLists == ListsOf(RegionNames, MaxRegions)

\* after the mount, the call for 'china' suspended at response.json()
InitGen ==
    /\ isLoading = TRUE
    /\ error = Null
    /\ selectedDate = InitialDate
    /\ currentMapName = NationalMap
    /\ currentAdcode = Num(NationalAdcode)
    /\ currentRegionNames = INITIAL_PROVINCES
    /\ mapCache = [m \in MapNames |-> Undefined]
    /\ chartInstance = "live"
    /\ inflight = << [adcode |-> Num(NationalAdcode), mapName |-> NationalMap,
                      pc |-> "json",
                      pre |-> <<NationalMap, Num(NationalAdcode),
                                INITIAL_PROVINCES>>] >>
    /\ option = NoOption
    /\ ev = [kind |-> "fetchOk", component |-> "", name |-> "",
             load |-> [adcode |-> Num(NationalAdcode), mapName |-> NationalMap,
                       pc |-> "fetch",
                       pre |-> <<NationalMap, Num(NationalAdcode),
                                 INITIAL_PROVINCES>>],
             requests |-> 0, settled |-> "none", redraws |-> 0]

\* response.json() resolves to a geometry with the names of list, the call
\* settles in success (lines 74-88), and the render effect of the commit
\* draws the data it generates for the new region names (lines 143, 225-247)
ResolveAndDraw(list) ==
    LET l == inflight[1] IN
    /\ l.pc = "json"
    /\ mapCache' = [mapCache EXCEPT ![l.mapName] = Geo(list)]
    /\ FinishSuccess(l.adcode, l.mapName, Geo(list), error)
    /\ inflight' = Remove(inflight, 1)
    /\ UNCHANGED <<selectedDate, chartInstance>>
    /\ \E rnd \in [DOMAIN SubRegions(Geo(list)) -> Randoms \X Randoms] :
          option' = [map |-> currentMapName', regions |-> currentRegionNames',
                     date |-> selectedDate',
                     data |-> generateData(currentRegionNames', rnd)]
    /\ ev' = [kind |-> "settle", component |-> "", name |-> "", load |-> l,
              requests |-> 0, settled |-> "success", redraws |-> 1]

NextGen == \E list \in RegionLists : inflight # <<>> /\ ResolveAndDraw(list)

SpecGen == InitGen /\ [][NextGen]_vars

(* ------------------------------ claims --------------------------------- *)

\* the last step invoked loadMap
Invoked == ev.kind \in {"mount", "click", "back"} /\ ev.load # NoLoad

\* the features' names that are not empty, in their order
RECURSIVE NonEmptyNames(_)
NonEmptyNames(names) ==
    IF names = <<>> THEN <<>>
    ELSE IF Head(names) = "" THEN NonEmptyNames(Tail(names))
    ELSE <<Head(names)>> \o NonEmptyNames(Tail(names))

C2_LoadingClearedOnSettle == ev.settled # "none" => isLoading = FALSE

\* C2 witness: a call suspended at response.json() has settled in failure
C2_Witness ==
    /\ ev.kind = "settle"
    /\ ev.load.pc = "json"
    /\ ev.settled = "failure"
    /\ ~isLoading

\* C3: isLoading is true in every state in which a loadMap call is suspended
\* between its invocation and its settlement, whatever other calls were
\* invoked or have settled in between.
C3_LoadingWhileAnyInFlight == inflight # <<>> => isLoading

\* the view is that of the call that has just settled in success
ViewOfSettledLoad ==
    /\ isLoading = FALSE
    /\ currentMapName = ev.load.mapName
    /\ currentAdcode = ev.load.adcode
    /\ "features" \in DOMAIN mapCache[ev.load.mapName]
    /\ currentRegionNames = NonEmptyNames(mapCache[ev.load.mapName].features)

\* C4: right after a call settles in success the controller is in Ready for
\* that call: isLoading false, error null, and the map name, adcode and
\* region names of that call, for any interleaving of calls.
C4_ReadyAfterSuccess ==
    ev.settled = "success" => (ViewOfSettledLoad /\ error = Null)

\* C5: a click on a name that is no key of the registry changes neither the
\* view state nor the cache and issues no request.
C5_AbsentNameNoOp ==
    [][ (ev'.kind = "click" /\ ev'.name \notin DOMAIN PROVINCE_ADCODES) =>
            /\ UNCHANGED <<view, mapCache, inflight>>
            /\ ev'.requests = 0 ]_vars

\* C6 (as claimed): right after a call settles in failure, error is the
\* message naming its mapName, isLoading is false, and the map name, adcode
\* and region names are those from before that call was invoked.
C6_FailureKeepsViewOfInvocation ==
    ev.settled = "failure" =>
        /\ error = Str("Unable to load map for " \o ev.load.mapName
                       \o ". Please check network or adcode.")
        /\ isLoading = FALSE
        /\ Snapshot = ev.load.pre

\* C6 (amended): a step in which a call settles in failure sets error to the
\* message naming its mapName, sets isLoading to false, and leaves the map
\* name, adcode and region names as they were right before the settlement.
C6_FailureKeepsViewOfSettlement ==
    [][ ev'.settled = "failure" =>
            /\ error' = Str("Unable to load map for " \o ev'.load.mapName
                            \o ". Please check network or adcode.")
            /\ isLoading' = FALSE
            /\ Snapshot' = Snapshot ]_vars

\* C6 witness: a call suspended at fetch() settled in failure under a view
\* that another call had moved to a province in the meantime
C6_Witness ==
    /\ ev.settled = "failure"
    /\ ev.kind = "settle"
    /\ Truthy(error)
    /\ currentMapName = "GuangdongSheng"
    /\ Snapshot # ev.load.pre

\* C7 (as claimed): neither the step that invokes a call that later fails nor
\* the step in which a call settles in failure redraws the chart.
C7_NoRedrawOnFailure ==
    (ev.settled = "failure" \/ (Invoked /\ ev.load.pc = "fetch")) => ev.redraws = 0

\* C7 (amended): the step that suspends a call redraws nothing; the step in
\* which a suspended call settles in failure leaves the map name and region
\* names as they were and redraws the chart once, for that unchanged map
\* with regenerated metrics, when isLoading was still true before it, and
\* not at all when another settlement had already cleared isLoading.
C7_OneRedrawOnFailure ==
    [][ /\ Len(inflight') > Len(inflight) => ev'.redraws = 0
        /\ (ev'.settled = "failure" /\ ev'.kind = "settle") =>
              /\ Snapshot' = Snapshot
              /\ ev'.redraws = (IF isLoading THEN 1 ELSE 0)
              /\ isLoading =>
                    option' = [map |-> currentMapName, regions |-> currentRegionNames,
                               date |-> selectedDate]
              /\ ~isLoading => option' = option ]_vars

\* C7 witness: a failed call was followed by a redraw of the previous map
C7_Witness ==
    /\ ev.settled = "failure"
    /\ ev.kind = "settle"
    /\ ev.redraws = 1
    /\ option.map = currentMapName
    /\ option.regions = currentRegionNames

\* C8: a series click on a registry name n calls loadMap(registry[n], n),
\* which either suspends at fetch() or settles at once from the cache; and
\* right after a call for a registry name n settles in success, the map name
\* is n, the adcode is registry[n] and the region names are the non-empty
\* feature names of the geometry loaded for n.
C8_ClickLoadsRegistryEntry ==
    /\ (ev.kind = "click" /\ ev.component = "series"
            /\ ev.name \in DOMAIN PROVINCE_ADCODES) =>
          /\ ev.load.mapName = ev.name
          /\ ev.load.adcode = Num(PROVINCE_ADCODES[ev.name])
          /\ \/ ev.load.pc = "hit" /\ ev.settled # "none"
             \/ /\ ev.load.pc = "fetch"
                /\ ev.requests = 1
                /\ inflight # <<>>
                /\ inflight[Len(inflight)] = ev.load
    /\ (ev.settled = "success" /\ ev.load.mapName \in DOMAIN PROVINCE_ADCODES) =>
          /\ currentMapName = ev.load.mapName
          /\ currentAdcode = Num(PROVINCE_ADCODES[ev.load.mapName])
          /\ "features" \in DOMAIN mapCache[ev.load.mapName]
          /\ currentRegionNames = NonEmptyNames(mapCache[ev.load.mapName].features)

\* C8 witness: the call of a click on GuangdongSheng, alone in flight, settled
\* in success on a geometry that has a feature without a name
C8_Witness ==
    /\ ev.settled = "success"
    /\ ev.kind = "settle"
    /\ ev.load.mapName = "GuangdongSheng"
    /\ inflight = <<>>
    /\ mapCache["GuangdongSheng"] = Geo(<<"", "GuangzhouShi">>)
    /\ currentRegionNames = <<"GuangzhouShi">>
    /\ currentAdcode = Num(440000)

\* C9 (as claimed): right after the return-to-national action the controller
\* is in Loading with a call for 'china' and 100000 suspended, whether or not
\* the national geometry is cached.
C9_BackEntersLoading ==
    ev.kind = "back" =>
        /\ isLoading
        /\ error = Null
        /\ ev.load.mapName = "china"
        /\ ev.load.adcode = Num(100000)
        /\ ev.load.pc = "fetch"

\* C9 (amended): the return-to-national action calls loadMap(100000,
\* 'china'); when no national geometry object is cached the call issues a
\* request and the controller is in Loading (isLoading true, error null);
\* when one is cached the call settles within the action without a request
\* and isLoading is false right after it.
C9_BackLoadsNational ==
    ev.kind = "back" =>
        /\ ev.load.mapName = "china"
        /\ ev.load.adcode = Num(100000)
        /\ mapCache["china"].t # "object" =>
              /\ isLoading
              /\ error = Null
              /\ ev.requests = 1
              /\ ev.settled = "none"
              /\ inflight # <<>>
              /\ inflight[Len(inflight)] = ev.load
        /\ mapCache["china"].t = "object" =>
              /\ ~isLoading
              /\ ev.requests = 0
              /\ ev.settled # "none"

\* C9 witness: the action was taken on a province with the national
\* geometry cached, and the call settled in success within the action
C9_Witness ==
    /\ ev.kind = "back"
    /\ ev.load.pc = "hit"
    /\ ev.settled = "success"
    /\ ev.load.pre[1] = "GuangdongSheng"
    /\ currentMapName = "china"

\* C10: a date selection made in Ready leaves isLoading, error, the map name,
\* the adcode, the region names, the cache and the suspended calls as they
\* are, invokes no loadMap and issues no request; when it selects a date
\* other than the selected one, selectedDate becomes that date and the chart
\* is redrawn exactly once, for the unchanged map and the new date.
C10_DateSelectionInReady ==
    [][ (ev'.kind = "date" /\ ~isLoading /\ error = Null) =>
            /\ UNCHANGED <<isLoading, error, currentMapName, currentAdcode,
                           currentRegionNames, mapCache, inflight>>
            /\ ev'.load = NoLoad
            /\ ev'.requests = 0
            /\ ev'.settled = "none"
            /\ selectedDate' # selectedDate =>
                  /\ ev'.redraws = 1
                  /\ option' = [map |-> currentMapName,
                                regions |-> currentRegionNames,
                                date |-> selectedDate'] ]_vars

\* C10 witness: in Ready the user selected the day before today and the
\* chart was redrawn for it
C10_Witness ==
    /\ ev.kind = "date"
    /\ ev.redraws = 1
    /\ ~isLoading
    /\ error = Null
    /\ selectedDate = 6
    /\ option.date = 6

\* C11: selecting the date that is already selected changes no state (the
\* view, the cache, the suspended calls, the chart handle), regenerates no
\* metrics and redraws nothing: the option of the chart stays the one the
\* last draw set.
C11_SameDateIdempotent ==
    [][ (ev'.kind = "date" /\ selectedDate' = selectedDate) =>
            /\ UNCHANGED <<view, mapCache, inflight, chartInstance, option>>
            /\ ev'.redraws = 0 ]_vars

\* C11 witness: with the chart drawn for the day before today and no load
\* under way, a date selection redrew nothing: it selected that day again
C11_Witness ==
    /\ ev.kind = "date"
    /\ ev.redraws = 0
    /\ ~isLoading
    /\ inflight = <<>>
    /\ selectedDate = NumDates - 1
    /\ option.date = NumDates - 1

\* C12: error is null in the state right after any loadMap call is invoked,
\* and error goes from null to a message only in a step in which a call
\* settles in failure (it is null at the start).
C12_ErrorClearedOnInvoke ==
    /\ error = Null
    /\ [][ /\ Invoked' => error' = Null
           /\ (error = Null /\ error' # Null) => ev'.settled = "failure" ]_vars

\* the second half of C12 alone: error becomes a message only in a step in
\* which a call settles in failure
ErrorOnlyFromFailure ==
    [][ (error = Null /\ error' # Null) => ev'.settled = "failure" ]_vars

\* C13 (as claimed): in every reachable state, the initial one included, the
\* region names are the non-empty feature names of the geometry cached under
\* currentMapName.
C13_RegionsFromCachedGeometry ==
    /\ "features" \in DOMAIN mapCache[currentMapName]
    /\ currentRegionNames = NonEmptyNames(mapCache[currentMapName].features)

\* C13 (amended): the region names are the keys of the registry at the
\* start; a step in which a call settles in success sets them to the
\* non-empty feature names of that call's geometry, which is then the one
\* cached under currentMapName; every other step, a settlement in failure
\* included, leaves them as they are.
C13_RegionsFromLastSuccess ==
    /\ currentRegionNames = INITIAL_PROVINCES
    /\ [][ /\ ev'.settled = "success" =>
                /\ currentMapName' = ev'.load.mapName
                /\ "features" \in DOMAIN mapCache'[currentMapName']
                /\ currentRegionNames' =
                       NonEmptyNames(mapCache'[currentMapName'].features)
           /\ ev'.settled # "success" => UNCHANGED currentRegionNames ]_vars

\* C13 witness: the region names come from a call for GuangdongSheng that
\* settled in success; a later call for it has settled in failure and left
\* an object without features in the cache under currentMapName
C13_Witness ==
    /\ ev.settled = "failure"
    /\ currentMapName = "GuangdongSheng"
    /\ currentRegionNames = <<"GuangzhouShi">>
    /\ mapCache["GuangdongSheng"] = Malformed

\* C14: once the cache holds a geometry (an object with features) under a map name, every later
\* state holds that same object under that name: no step removes or replaces
\* it, whatever calls are invoked and however they interleave.
C14_CacheEntriesImmutable ==
    [][ \A m \in MapNames :
            WellFormed(mapCache[m]) => mapCache'[m] = mapCache[m] ]_vars

\* what C14 holds for: a step replaces a cached geometry only by the response
\* of a call that was suspended for the same name
CacheReplacedOnlyByOverlap ==
    [][ \A m \in MapNames :
            (WellFormed(mapCache[m]) /\ mapCache'[m] # mapCache[m]) =>
                /\ ev'.kind = "settle"
                /\ ev'.load.mapName = m
                /\ \E i \in DOMAIN inflight : inflight[i] = ev'.load ]_vars

\* C15: every sample generateData produces, for every name of every list,
\* carries that name, a value within [1000, 10000] and a growth within
\* [-0.2, 0.2] (growth is kept in hundredths).
C15_MetricsInRange ==
    "data" \in DOMAIN option =>
        /\ DOMAIN option.data = DOMAIN currentRegionNames
        /\ \A i \in DOMAIN option.data :
              /\ option.data[i].name = currentRegionNames[i]
              /\ option.data[i].value >= 1000
              /\ option.data[i].value <= 10000
              /\ option.data[i].growth >= 0 - 20
              /\ option.data[i].growth <= 20

\* C15 witness: a list of two names got the largest value and growth for one
\* name and the smallest for the other
C15_Witness ==
    /\ "data" \in DOMAIN option
    /\ Len(option.data) = 2
    /\ option.data[1].value = 9991
    /\ option.data[1].growth = 20
    /\ option.data[2].value = 1000
    /\ option.data[2].growth = 0 - 20

\* C16: when a suspended call settles in success after another call has
\* settled in success since its invocation (the two overlapped), the map
\* name, the adcode and the region names right after are those of the call
\* that settled last, whichever of the two was invoked first.
C16_LaterSettlingWins ==
    [][ (ev'.kind = "settle" /\ ev'.settled = "success"
            /\ Snapshot # ev'.load.pre) =>
            /\ \E i \in DOMAIN inflight : inflight[i] = ev'.load
            /\ currentMapName' = ev'.load.mapName
            /\ currentAdcode' = ev'.load.adcode
            /\ "features" \in DOMAIN mapCache'[ev'.load.mapName]
            /\ currentRegionNames' =
                   NonEmptyNames(mapCache'[ev'.load.mapName].features) ]_vars

\* C16 witness: a call for 'china' invoked under the initial view settled in
\* success after a call for GuangdongSheng had settled in success in the
\* meantime; the view is the national one
C16_Witness ==
    /\ ev.kind = "settle"
    /\ ev.settled = "success"
    /\ ev.load.mapName = "china"
    /\ ev.load.pre = <<"china", Num(100000), INITIAL_PROVINCES>>
    /\ WellFormed(mapCache["GuangdongSheng"])
    /\ currentMapName = "china"
    /\ currentAdcode = Num(100000)
    /\ inflight = <<>>

\* C17: over a lifetime with any number of runs of the chart effect, load
\* cycles and a teardown, the chart handle is created once (from no handle),
\* is disposed once and only by the teardown, the resize listener is gone
\* after the teardown, and no draw is made on a disposed handle.
C17_ChartHandleLifecycle ==
    [][ /\ chartInstance' # chartInstance =>
              <<chartInstance, chartInstance'>> \in
                  {<<"null", "live">>, <<"live", "disposed">>}
        /\ chartInstance' = "disposed" =>
              (chartInstance = "disposed" \/ ev'.kind = "unmount")
        /\ ev'.kind = "unmount" =>
              (chartInstance' = "disposed" /\ ~ResizeListenerOn')
        /\ ev'.redraws > 0 => chartInstance' = "live" ]_vars

\* the last conjunct of C17 alone: no draw is made on a disposed handle
NoDrawAfterDispose == ev.redraws > 0 => chartInstance = "live"

\* C18: when the await of every suspended call is settled in the end, a call
\* suspended for a map name leads to the settlement (in success or in
\* failure) of a suspended call for that name, and isLoading true leads to
\* isLoading false; and isLoading goes from true to false only in a step in
\* which a call settles, so that with a request that never resolves and no
\* other settlement it stays true for ever.
C18_LoadsSettle ==
    /\ \A m \in MapNames :
          (\E i \in DOMAIN inflight : inflight[i].mapName = m)
              ~> (ev.kind = "settle" /\ ev.settled # "none"
                    /\ ev.load.mapName = m)
    /\ isLoading ~> ~isLoading
    /\ [][ (isLoading /\ ~isLoading') => ev'.settled # "none" ]_vars

\* C18 witness: the one suspended call has settled, on a fetch() that
\* rejected, and isLoading is false
C18_Witness ==
    /\ ev.kind = "settle"
    /\ ev.load.pc = "fetch"
    /\ ev.settled = "failure"
    /\ inflight = <<>>
    /\ ~isLoading

\* the liveness half of C18 alone, which needs the assumption
LoadingEnds == isLoading ~> ~isLoading

\* the map name and the adcode belong together: the national pair, or a
\* registry name with its registry code
ConsistentPair ==
    \/ currentMapName = "china" /\ currentAdcode = Num(100000)
    \/ /\ currentMapName \in DOMAIN PROVINCE_ADCODES
       /\ currentAdcode = Num(PROVINCE_ADCODES[currentMapName])

\* C19: in every reachable state the map name and the adcode are the
\* national pair or a registry name with its registry code, and a step
\* changes either of them only when a call settles in success, both at once.
C19_MapAndAdcodeConsistent ==
    /\ []ConsistentPair
    /\ [][ (currentMapName' # currentMapName \/ currentAdcode' # currentAdcode) =>
              /\ ev'.settled = "success"
              /\ currentMapName' # currentMapName
              /\ currentAdcode' # currentAdcode ]_vars

\* C20: the cache is written only in a step in which a call settles in
\* success, and every call that finds its name in the cache settles in
\* success; a body that parses but fails registration or the extraction of
\* the feature names is not left in the cache.
C20_CachedOnlyOnSuccess ==
    [][ /\ mapCache' # mapCache => ev'.settled = "success"
        /\ ev'.load.pc = "hit" => ev'.settled = "success" ]_vars

\* where C20 fails for good: the cache holds an object that has no features,
\* and a call for its name has failed on it without a request
FailedOnCachedObject ==
    /\ ev.load.pc = "hit"
    /\ ev.requests = 0
    /\ ev.settled = "failure"
    /\ mapCache[ev.load.mapName] = Malformed

====
